---------------------------- MODULE Spec2Model ----------------------------
(***************************************************************************)
(* A model of TechCrunchScraper (src/tech-crunch.py): the fetch_page retry *)
(* loop, parse_articles, save_articles over the SQLite articles table, and *)
(* the scrape driver.                                                      *)
(*                                                                         *)
(* Three specifications share the variables:                               *)
(*   Spec       one scraper running scrape() up to MaxRuns times against a *)
(*              server that answers every request as it pleases;           *)
(*   SpecParse  parse_articles applied to every page of up to MaxBlocks    *)
(*              nodes;                                                     *)
(*   SpecStore  two save_articles calls on two connections to one database *)
(*              file, interleaved statement by statement.                  *)
(***************************************************************************)
EXTENDS Integers, Sequences, FiniteSets, TLC

(***************************************************************************)
(* Bounds of the model.                                                    *)
(***************************************************************************)
MaxPages == 2      \* largest max_pages handed to scrape
MaxRuns == 2       \* number of scrape() runs against the same database
MaxBlocks == 5     \* longest page given to parse_articles in SpecParse
MaxBatch == 2      \* longest batch given to save_articles in SpecStore

(***************************************************************************)
(* Program constants.                                                      *)
(***************************************************************************)
max_retries == 3
DefaultRetryAfter == 5

base_url == "https://techcrunch.com/category/startups/"
Origin == "https://techcrunch.com"

\* Python's None: a missing element, attribute or header.
None == "<None>"

VARIABLES
    pc,         \* where the scraper is: see the actions
    run,        \* number of scrape() calls started so far
    max_pages,  \* argument of the current scrape() call
    page,       \* loop variable of scrape
    attempt,    \* loop variable of fetch_page
    response,   \* the last answer of the server
    attempts,   \* outcome and sleep of every attempt of this fetch_page call
    html,       \* value returned by fetch_page
    articles,   \* value returned by parse_articles
    session,    \* the aiohttp.ClientSession of scrape
    requested,  \* pages requested during this run
    failedPages,\* pages of this run for which fetch_page returned ""
    emptyPages, \* pages of this run for which parse_articles returned []
    saved,      \* the count the last save_articles call logged
    inserted,   \* the number of rows the last save_articles call added
    logged,     \* the failure that scrape or save_articles logged for this page
    throttled,  \* the inter-page sleep was slept since the last first request
    nrequests,  \* number of HTTP requests of this run
    stored,     \* pages of this run whose save_articles call has returned
    db,         \* committed rows of the articles table
    clock,      \* datetime.utcnow()
    wpc,        \* SpecStore: position of each writer
    batch,      \* SpecStore: articles argument of each writer
    idx,        \* SpecStore: next record of each writer's loop
    stamp,      \* SpecStore: scraped_at of each writer
    pending,    \* SpecStore: rows each writer inserted and has not committed
    lock,       \* SpecStore: the connections holding the write lock
    firstWriter \* SpecStore: for each url, the writers whose INSERT took effect

crawlVars == <<pc, run, max_pages, page, attempt, response, attempts, html,
               articles, session, requested, failedPages, emptyPages, saved,
               inserted, logged, throttled, nrequests, stored>>
storeVars == <<wpc, batch, idx, stamp, pending, lock, firstWriter>>
vars == <<crawlVars, storeVars, db, clock>>


(***************************************************************************)
(* Pages.  A page is the sequence of its top-level nodes; the empty string *)
(* is the empty sequence.  A node is an article.post-block element or some *)
(* other markup; of an article block the model keeps what parse_articles   *)
(* reads: the first "h2.post-block__title a" (its text and its href), the  *)
(* first time element (its datetime attribute) and the first               *)
(* div.post-block__content (its text).                                     *)
(***************************************************************************)
NoDatetime == "<time without datetime>"

Node(tag, title_elem, text, href, time, excerpt) ==
    [tag |-> tag, title_elem |-> title_elem, text |-> text, href |-> href,
     time |-> time, excerpt |-> excerpt]

Art(text, href, time, excerpt) ==
    Node("article.post-block", TRUE, text, href, time, excerpt)

NoTitleArt(time, excerpt) ==
    Node("article.post-block", FALSE, None, None, time, excerpt)

Div == Node("div", FALSE, None, None, None, None)

\* str.strip(), as get_text(strip=True) applies it, on the texts of the model.
Strip(s) ==
    CASE s = " " -> ""
      [] s = " A" -> "A"
      [] s = "B " -> "B"
      [] OTHER -> s

\* urllib.parse.urljoin on the hrefs of the model.
IsAbsolute(href) == href \in {"https://techcrunch.com/a", "https://example.org/x"}
IsRootRelative(href) == href \in {"/a", "/b"}

urljoin(base, href) ==
    IF IsAbsolute(href) THEN href
    ELSE IF IsRootRelative(href) THEN Origin \o href
    ELSE base \o href

\* Lines 87-89: title and url of a block.
BlockTitle(b) == IF b.title_elem THEN Strip(b.text) ELSE ""

BlockUrl(b) ==
    IF b.title_elem /\ b.href # None /\ b.href # ""
    THEN urljoin(base_url, b.href) ELSE ""

\* Lines 92-93: date_elem['datetime'] raises KeyError when the time element
\* has no datetime attribute.
BlockRaises(b) == b.time = NoDatetime

BlockDate(b) == IF b.time # None THEN b.time ELSE ""

\* Lines 96-97.
BlockExcerpt(b) == IF b.excerpt # None THEN Strip(b.excerpt) ELSE ""

Article(title, url, date_published, excerpt) ==
    [title |-> title, url |-> url, date_published |-> date_published,
     excerpt |-> excerpt]

\* if url: the title is not checked.
ParseBlock_urlOnly(b) ==
    IF BlockRaises(b) THEN <<>>
    ELSE IF BlockUrl(b) # ""
         THEN <<Article(BlockTitle(b), BlockUrl(b), BlockDate(b),
                        BlockExcerpt(b))>>
         ELSE <<>>

\* Lines 85-108: the body of the loop for one block; the records it appends.
ParseBlock(b) ==
    IF BlockRaises(b) THEN <<>>
    ELSE IF BlockTitle(b) # "" /\ BlockUrl(b) # ""
         THEN <<Article(BlockTitle(b), BlockUrl(b), BlockDate(b),
                        BlockExcerpt(b))>>
         ELSE <<>>

\* Line 82: soup.select('article.post-block').
IsArticleBlock(n) == n.tag = "article.post-block"

RECURSIVE parse_articles(_)
parse_articles(h) ==
    IF h = <<>> THEN <<>>
    ELSE IF IsArticleBlock(Head(h))
         THEN ParseBlock(Head(h)) \o parse_articles(Tail(h))
         ELSE parse_articles(Tail(h))

(***************************************************************************)
(* The articles table (lines 38-45) and save_articles (lines 116-142).     *)
(***************************************************************************)
Row(id, a, scraped_at) ==
    [id |-> id, title |-> a.title, url |-> a.url,
     date_published |-> a.date_published, excerpt |-> a.excerpt,
     scraped_at |-> scraped_at]

Urls(rows) == {r.url : r \in rows}

RowsOf(rows, u) == {r \in rows : r.url = u}

\* id INTEGER PRIMARY KEY AUTOINCREMENT: one more than the largest id used.
NextId(rows) ==
    IF rows = {} THEN 1
    ELSE (CHOOSE i \in {r.id : r \in rows} : \A r \in rows : r.id <= i) + 1

\* A plain INSERT into a table whose url column is not UNIQUE.
InsertOrIgnore_plain(rows, a, scraped_at) ==
    rows \cup {Row(NextId(rows), a, scraped_at)}

\* INSERT OR REPLACE: the stored row gives way to the new one.
InsertOrIgnore_replace(rows, a, scraped_at) ==
    (rows \ RowsOf(rows, a.url)) \cup {Row(NextId(rows), a, scraped_at)}

\* INSERT OR IGNORE with url TEXT UNIQUE NOT NULL: a row whose url is stored
\* already is dropped, and the stored row is left as it is.
InsertOrIgnore(rows, a, scraped_at) ==
    IF a.url \in Urls(rows) THEN rows
    ELSE rows \cup {Row(NextId(rows), a, scraped_at)}

\* Lines 123-139: the loop over the batch, in order, then the commit.
RECURSIVE save_articles(_, _, _)
save_articles(rows, arts, scraped_at) ==
    IF arts = <<>> THEN rows
    ELSE save_articles(InsertOrIgnore(rows, Head(arts), scraped_at),
                       Tail(arts), scraped_at)

\* Lines 163-179: SELECT title, url, date_published, excerpt, scraped_at.
get_stored_articles(rows) ==
    {[title |-> r.title, url |-> r.url, date_published |-> r.date_published,
      excerpt |-> r.excerpt, scraped_at |-> r.scraped_at] : r \in rows}

(***************************************************************************)
(* The server.  It answers a request with a status and a body, or the      *)
(* request ends in an aiohttp.ClientError.                                 *)
(***************************************************************************)
PageA == <<Art("A", "/a", "2024-01-01", " A"), Art("B ", "/b", None, None)>>
PageA2 == <<Div, Art("A2", "https://techcrunch.com/a", "2024-02-02", "B ")>>
PageBad ==
    <<NoTitleArt(None, "A"), Art("C", "c", NoDatetime, None), Art(" ", "/b", None, None)>>
PageNoItems == <<Div>>
PageEmpty == <<>>

Bodies == {PageA, PageA2, PageBad, PageNoItems, PageEmpty}

RetryAfterHeaders == {None, "7", "Wed, 21 Oct 2015 07:28:00 GMT"}

OtherStatuses == {404, 500}

Response(error, status, body, retry_after) ==
    [error |-> error, status |-> status, body |-> body,
     retry_after |-> retry_after]

NoResponse == Response(FALSE, 0, <<>>, None)

\* int() on the Retry-After values of the model: int() of an HTTP-date is a
\* ValueError.
IntParses(h) == h \in {"7"}

IntOf(h) == CASE h = "7" -> 7 [] OTHER -> 0

\* Line 62: int(response.headers.get('Retry-After', 5)).
RetryAfterRaises(h) == h # None /\ ~IntParses(h)

\* The header is not read: always the default wait.
RetryAfter_default(h) == DefaultRetryAfter

RetryAfter(h) == IF h = None THEN DefaultRetryAfter ELSE IntOf(h)

\* The sleep is not guarded by attempt < max_retries - 1.
Backoff_always(a) == 2 ^ a

\* Lines 70-71: the sleep after the ClientError of attempt a.
Backoff(a) == IF a < max_retries - 1 THEN 2 ^ a ELSE 0

Attempt(outcome, sleep) == [outcome |-> outcome, sleep |-> sleep]

(***************************************************************************)
(* SpecStore's writers, idle throughout Spec and SpecParse.                *)
(***************************************************************************)
Writers == {1, 2}

UrlA == urljoin(base_url, "/a")
UrlB == urljoin(base_url, "/b")
UrlC == urljoin(base_url, "c")

StoreUrls == {UrlA, UrlB, UrlC}

StoreIdle ==
    /\ wpc = [w \in Writers |-> "idle"]
    /\ batch = [w \in Writers |-> <<>>]
    /\ idx = [w \in Writers |-> 1]
    /\ stamp = [w \in Writers |-> 0]
    /\ pending = [w \in Writers |-> {}]
    /\ lock = {}
    /\ firstWriter = [u \in StoreUrls |-> {}]

CrawlIdle ==
    /\ pc = "idle"
    /\ run = 0
    /\ max_pages = 0
    /\ page = 0
    /\ attempt = 0
    /\ response = NoResponse
    /\ attempts = <<>>
    /\ html = <<>>
    /\ articles = <<>>
    /\ session = "none"
    /\ requested = {}
    /\ failedPages = {}
    /\ emptyPages = {}
    /\ saved = 0
    /\ inserted = 0
    /\ logged = "none"
    /\ throttled = FALSE
    /\ nrequests = 0
    /\ stored = <<>>

(***************************************************************************)
(* Spec: the scraper.  Init is the state after __init__ on a new database  *)
(* file; time is counted in inter-page sleeps.                             *)
(***************************************************************************)
Init ==
    /\ CrawlIdle
    /\ StoreIdle
    /\ db = {}
    /\ clock = 0

\* Rate-limited attempts are given a budget of their own.
HasNextAttempt_twice(a) == a + 1 < 2 * max_retries

\* range(max_retries + 1): one attempt too many.
HasNextAttempt_inclusive(a) == a < max_retries

\* Line 56: for attempt in range(max_retries) has another iteration after
\* attempt a.
HasNextAttempt(a) == a + 1 < max_retries

\* Line 147: the for loop of scrape moves to the next page, or ends and
\* leaves the async with block of line 146, which closes the session.
NextPage ==
    IF page < max_pages
    THEN /\ page' = page + 1
         /\ pc' = "fetch"
         /\ UNCHANGED session
    ELSE /\ pc' = "done"
         /\ session' = "closed"
         /\ UNCHANGED page

\* Lines 144-147: scrape(mp) is called; a run starts after the previous one
\* has ended.
Scrape(mp) ==
    /\ pc \in {"idle", "done", "raised"}
    /\ run < MaxRuns
    /\ run' = run + 1
    /\ max_pages' = mp
    /\ page' = 1
    /\ session' = "open"
    /\ pc' = "fetch"
    /\ requested' = {}
    /\ failedPages' = {}
    /\ emptyPages' = {}
    /\ response' = NoResponse
    /\ attempts' = <<>>
    /\ logged' = "none"
    /\ throttled' = FALSE
    /\ nrequests' = 0
    /\ stored' = <<>>
    /\ attempt' = 0
    /\ html' = <<>>
    /\ articles' = <<>>
    /\ saved' = 0
    /\ inserted' = 0
    /\ UNCHANGED <<db, clock, storeVars>>

\* Lines 148-151, 55-58: a new iteration of the loop of scrape; it calls
\* fetch_page, which sends its first request.  Nothing of the previous
\* iteration is read again.
FetchPage ==
    /\ pc = "fetch"
    /\ attempt' = 0
    /\ attempts' = <<>>
    /\ requested' = requested \cup {page}
    /\ pc' = "get"
    /\ html' = <<>>
    /\ articles' = <<>>
    /\ saved' = 0
    /\ inserted' = 0
    /\ logged' = "none"
    /\ throttled' = FALSE
    /\ nrequests' = nrequests + 1
    /\ UNCHANGED <<run, max_pages, page, response, session, failedPages,
                   emptyPages, stored, db, clock, storeVars>>

\* Lines 56, 73: after an attempt that did not return, the loop sends the
\* next request or falls out and returns "".
Retry ==
    IF HasNextAttempt(attempt)
    THEN /\ attempt' = attempt + 1
         /\ pc' = "get"
         /\ nrequests' = nrequests + 1
         /\ UNCHANGED html
    ELSE /\ html' = <<>>
         /\ pc' = "returned"
         /\ UNCHANGED <<attempt, nrequests>>

\* Lines 59-60: status 200, the body is returned.
Respond200(body) ==
    /\ pc = "get"
    /\ response' = Response(FALSE, 200, body, None)
    /\ attempts' = Append(attempts, Attempt("200", 0))
    /\ html' = body
    /\ pc' = "returned"
    /\ UNCHANGED <<run, max_pages, page, attempt, articles, session,
                   requested, failedPages, emptyPages, saved, inserted,
                   logged, throttled, nrequests, stored, db, clock,
                   storeVars>>

\* The session is created without async with: an exception leaves it open.
Respond429_leak(h) ==
    /\ pc = "get"
    /\ response' = Response(FALSE, 429, <<>>, h)
    /\ IF RetryAfterRaises(h)
       THEN /\ attempts' = Append(attempts, Attempt("429", 0))
            /\ pc' = "raised"
            /\ UNCHANGED <<attempt, html, nrequests>>
       ELSE /\ attempts' = Append(attempts, Attempt("429", RetryAfter(h)))
            /\ Retry
    /\ UNCHANGED <<run, max_pages, page, articles, session, requested,
                   failedPages, emptyPages, saved, inserted, logged,
                   throttled, stored, db, clock, storeVars>>

\* Lines 61-64: status 429.  A Retry-After that int() rejects raises a
\* ValueError, which no handler catches: it leaves fetch_page and scrape, and
\* the async with block closes the session on the way out.
Respond429(h) ==
    /\ pc = "get"
    /\ response' = Response(FALSE, 429, <<>>, h)
    /\ IF RetryAfterRaises(h)
       THEN /\ attempts' = Append(attempts, Attempt("429", 0))
            /\ pc' = "raised"
            /\ session' = "closed"
            /\ UNCHANGED <<attempt, html, nrequests>>
       ELSE /\ attempts' = Append(attempts, Attempt("429", RetryAfter(h)))
            /\ Retry
            /\ UNCHANGED session
    /\ UNCHANGED <<run, max_pages, page, articles, requested, failedPages,
                   emptyPages, saved, inserted, logged, throttled, stored,
                   db, clock, storeVars>>

\* Every non-200 status is retried with backoff, like a ClientError.
RespondOther_retry(status) ==
    /\ pc = "get"
    /\ response' = Response(FALSE, status, <<>>, None)
    /\ attempts' = Append(attempts, Attempt("other", Backoff(attempt)))
    /\ Retry
    /\ UNCHANGED <<run, max_pages, page, articles, session, requested,
                   failedPages, emptyPages, saved, inserted, logged,
                   throttled, stored, db, clock, storeVars>>

\* Lines 65-67: any other status returns "" at once.
RespondOther(status) ==
    /\ pc = "get"
    /\ response' = Response(FALSE, status, <<>>, None)
    /\ attempts' = Append(attempts, Attempt("other", 0))
    /\ html' = <<>>
    /\ pc' = "returned"
    /\ UNCHANGED <<run, max_pages, page, attempt, articles, session,
                   requested, failedPages, emptyPages, saved, inserted,
                   logged, throttled, nrequests, stored, db, clock,
                   storeVars>>

\* Lines 68-72: aiohttp.ClientError, backoff unless this was the last attempt.
RespondClientError ==
    /\ pc = "get"
    /\ response' = Response(TRUE, 0, <<>>, None)
    /\ attempts' = Append(attempts, Attempt("ClientError", Backoff(attempt)))
    /\ Retry
    /\ UNCHANGED <<run, max_pages, page, articles, session, requested,
                   failedPages, emptyPages, saved, inserted, logged,
                   throttled, stored, db, clock, storeVars>>

\* if not html: break.
SkipPage_break ==
    /\ pc = "returned"
    /\ html = <<>>
    /\ failedPages' = failedPages \cup {page}
    /\ logged' = "fetch"
    /\ response' = NoResponse
    /\ attempts' = <<>>
    /\ pc' = "done"
    /\ session' = "closed"
    /\ UNCHANGED <<run, max_pages, page, attempt, html,
                   articles, requested, emptyPages, saved, inserted,
                   throttled, nrequests, stored, db, clock, storeVars>>

\* Lines 152-154: if not html: continue.  The fetch_page call is over.
SkipPage ==
    /\ pc = "returned"
    /\ html = <<>>
    /\ failedPages' = failedPages \cup {page}
    /\ logged' = "fetch"
    /\ response' = NoResponse
    /\ attempts' = <<>>
    /\ NextPage
    /\ UNCHANGED <<run, max_pages, attempt, html,
                   articles, requested, emptyPages, saved, inserted,
                   throttled, nrequests, stored, db, clock, storeVars>>

\* The next page is fetched as soon as this one is parsed.
Parse_pipelined ==
    /\ pc = "returned"
    /\ html # <<>>
    /\ articles' = parse_articles(html)
    /\ emptyPages' = IF articles' = <<>> THEN emptyPages \cup {page}
                     ELSE emptyPages
    /\ IF page < max_pages
       THEN pc' = "fetch" /\ page' = page + 1
       ELSE pc' = "parsed" /\ page' = page
    /\ response' = NoResponse
    /\ attempts' = <<>>
    /\ UNCHANGED <<run, max_pages, attempt, html, session, requested,
                   failedPages, saved, inserted, logged, throttled,
                   nrequests, stored, db, clock, storeVars>>

\* Line 156.  The fetch_page call is over.
Parse ==
    /\ pc = "returned"
    /\ html # <<>>
    /\ articles' = parse_articles(html)
    /\ emptyPages' = IF articles' = <<>> THEN emptyPages \cup {page}
                     ELSE emptyPages
    /\ pc' = "parsed"
    /\ response' = NoResponse
    /\ attempts' = <<>>
    /\ UNCHANGED <<run, max_pages, page, attempt, html,
                   session, requested, failedPages, saved, inserted, logged,
                   throttled, nrequests, stored, db, clock, storeVars>>

\* if not articles: break.
Save_breakOnEmpty ==
    /\ pc = "parsed"
    /\ IF articles # <<>>
       THEN /\ db' = save_articles(db, articles, clock)
            /\ saved' = Len(articles)
            /\ inserted' = Cardinality(db') - Cardinality(db)
            /\ stored' = Append(stored, page)
            /\ pc' = "throttle"
            /\ UNCHANGED session
       ELSE /\ pc' = "done"
            /\ session' = "closed"
            /\ UNCHANGED <<db, saved, inserted, stored>>
    /\ UNCHANGED <<run, max_pages, page, attempt, response, attempts, html,
                   articles, requested, failedPages, emptyPages, logged,
                   throttled, nrequests, clock, storeVars>>

\* Lines 157-158: if articles: await self.save_articles(articles).  The call
\* has no await inside, so it runs in one step; line 140 logs len(articles).
Save ==
    /\ pc = "parsed"
    /\ IF articles # <<>>
       THEN /\ db' = save_articles(db, articles, clock)
            /\ saved' = Len(articles)
            /\ inserted' = Cardinality(db') - Cardinality(db)
            /\ stored' = Append(stored, page)
       ELSE UNCHANGED <<db, saved, inserted, stored>>
    /\ pc' = "throttle"
    /\ UNCHANGED <<run, max_pages, page, attempt, response, attempts, html,
                   articles, session, requested, failedPages, emptyPages,
                   logged, throttled, nrequests, clock, storeVars>>

\* The records of a batch at the positions outside bad, in order.
RECURSIVE Without(_, _, _)
Without(arts, bad, i) ==
    IF i > Len(arts) THEN <<>>
    ELSE IF i \in bad THEN Without(arts, bad, i + 1)
         ELSE <<arts[i]>> \o Without(arts, bad, i + 1)

\* Lines 135-137: the INSERT of the records at the positions bad raises
\* sqlite3.Error; each is logged and skipped, the others are inserted and
\* committed, and line 140 logs len(articles).
SaveInsertErrors(bad) ==
    /\ pc = "parsed"
    /\ articles # <<>>
    /\ bad # {}
    /\ db' = save_articles(db, Without(articles, bad, 1), clock)
    /\ saved' = Len(articles)
    /\ inserted' = Cardinality(db') - Cardinality(db)
    /\ stored' = Append(stored, page)
    /\ logged' = "insert"
    /\ pc' = "throttle"
    /\ UNCHANGED <<run, max_pages, page, attempt, response, attempts, html,
                   articles, session, requested, failedPages, emptyPages,
                   throttled, nrequests, clock, storeVars>>

\* The error handler starts over with an empty table.
SaveDatabaseError_truncate ==
    /\ pc = "parsed"
    /\ articles # <<>>
    /\ db' = {}
    /\ inserted' = 0
    /\ stored' = Append(stored, page)
    /\ logged' = "database"
    /\ pc' = "throttle"
    /\ UNCHANGED <<run, max_pages, page, attempt, response, attempts, html,
                   articles, session, requested, failedPages, emptyPages,
                   saved, throttled, nrequests, clock, storeVars>>

\* Lines 119, 139, 141-142: sqlite3.connect or commit raises sqlite3.Error.
\* The with block rolls the transaction back, the error is logged, and
\* save_articles returns to scrape.
SaveDatabaseError ==
    /\ pc = "parsed"
    /\ articles # <<>>
    /\ inserted' = 0
    /\ stored' = Append(stored, page)
    /\ logged' = "database"
    /\ pc' = "throttle"
    /\ UNCHANGED <<run, max_pages, page, attempt, response, attempts, html,
                   articles, session, requested, failedPages, emptyPages,
                   saved, throttled, nrequests, db, clock, storeVars>>

\* Line 161: await asyncio.sleep(2), then the next iteration.
Throttle ==
    /\ pc = "throttle"
    /\ clock' = clock + 1
    /\ throttled' = TRUE
    /\ NextPage
    /\ UNCHANGED <<run, max_pages, attempt, response, attempts, html,
                   articles, requested, failedPages, emptyPages, saved,
                   inserted, logged, nrequests, stored, db, storeVars>>

Next ==
    \/ \E mp \in 1..MaxPages : Scrape(mp)
    \/ FetchPage
    \/ \E body \in Bodies : Respond200(body)
    \/ \E h \in RetryAfterHeaders : Respond429(h)
    \/ \E status \in OtherStatuses : RespondOther(status)
    \/ RespondClientError
    \/ SkipPage
    \/ Parse
    \/ Save
    \/ Throttle

Spec == Init /\ [][Next]_vars

(***************************************************************************)
(* SpecRun: one scrape() run on a new database file whose storage may      *)
(* fail.  The event loop resumes scrape whenever it can go on, and every   *)
(* request ends in a response or an error, hence the weak fairness.        *)
(***************************************************************************)
ScrapeOnce(mp) == pc = "idle" /\ Scrape(mp)

NextRun ==
    \/ \E mp \in 1..MaxPages : ScrapeOnce(mp)
    \/ FetchPage
    \/ \E body \in Bodies : Respond200(body)
    \/ \E h \in RetryAfterHeaders : Respond429(h)
    \/ \E status \in OtherStatuses : RespondOther(status)
    \/ RespondClientError
    \/ SkipPage
    \/ Parse
    \/ Save
    \/ \E bad \in SUBSET (1..Len(articles)) : SaveInsertErrors(bad)
    \/ SaveDatabaseError
    \/ Throttle

SpecRun == Init /\ [][NextRun]_vars /\ WF_vars(NextRun)

(***************************************************************************)
(* SpecParse: scrape has fetched a page of up to MaxBlocks nodes and hands *)
(* it to parse_articles.                                                   *)
(***************************************************************************)
Nodes ==
    { Art("A", "/a", None, None),
      Art("B ", "/b", "2024-01-01", " A"),
      Art("C", "c", NoDatetime, None),
      Art(" ", "/a", None, None),
      Art("A2", "", "2024-01-01", None),
      Art("A", None, None, None),
      NoTitleArt(NoDatetime, " A"),
      NoTitleArt(None, None),
      Div }

RECURSIVE PagesOfLen(_)
PagesOfLen(n) ==
    IF n = 0 THEN {<<>>}
    ELSE {Append(h, b) : h \in PagesOfLen(n - 1), b \in Nodes}

InitParse ==
    /\ pc = "returned"
    /\ run = 1
    /\ max_pages = 1
    /\ page = 1
    /\ attempt = 0
    /\ \E n \in 1..MaxBlocks : html \in PagesOfLen(n)
    /\ response = Response(FALSE, 200, html, None)
    /\ attempts = <<Attempt("200", 0)>>
    /\ articles = <<>>
    /\ session = "open"
    /\ requested = {1}
    /\ failedPages = {}
    /\ emptyPages = {}
    /\ saved = 0
    /\ inserted = 0
    /\ logged = "none"
    /\ throttled = FALSE
    /\ nrequests = 1
    /\ stored = <<>>
    /\ StoreIdle
    /\ db = {}
    /\ clock = 0

NextParse == Parse \/ Save

SpecParse == InitParse /\ [][NextParse]_vars

(***************************************************************************)
(* SpecStore: two save_articles calls, each on its own connection to the   *)
(* same database file (line 119), which already holds one row.  SQLite     *)
(* lets one connection at a time write: the first INSERT of a transaction  *)
(* takes the write lock and commit releases it; an INSERT that finds the   *)
(* lock taken waits for it, and raises sqlite3.OperationalError when the   *)
(* wait times out.                                                         *)
(***************************************************************************)
SeedRows == {Row(1, Article("B", UrlB, "", ""), 0)}

StoreArticles ==
    { Article("A", UrlA, "2024-01-01", "A"),
      Article("A2", UrlA, "", ""),
      Article("B2", UrlB, "", ""),
      Article("C", UrlC, "", "") }

RECURSIVE BatchesOfLen(_)
BatchesOfLen(n) ==
    IF n = 0 THEN {<<>>}
    ELSE {Append(b, a) : b \in BatchesOfLen(n - 1), a \in StoreArticles}

InitStore ==
    /\ CrawlIdle
    /\ StoreIdle
    /\ db = SeedRows
    /\ clock = 1

\* What connection w reads: the committed rows and its own uncommitted ones.
View(w) == db \cup pending[w]

\* No write lock: every connection writes whenever it likes.
CanWrite_nolock(w) == TRUE

\* The write lock is free for connection w.
CanWrite(w) == lock \subseteq {w}

\* Lines 119-121: connect, cursor, scraped_at = utcnow().
Begin(w, arts) ==
    /\ wpc[w] = "idle"
    /\ wpc' = [wpc EXCEPT ![w] = "insert"]
    /\ batch' = [batch EXCEPT ![w] = arts]
    /\ idx' = [idx EXCEPT ![w] = 1]
    /\ stamp' = [stamp EXCEPT ![w] = clock]
    /\ \E d \in {0, 1} : clock' = clock + d
    /\ UNCHANGED <<pending, lock, firstWriter, db, crawlVars>>

\* Lines 125-134: one INSERT OR IGNORE, executed under the write lock.
Insert(w) ==
    /\ wpc[w] = "insert"
    /\ idx[w] <= Len(batch[w])
    /\ CanWrite(w)
    /\ LET a == batch[w][idx[w]]
           after == InsertOrIgnore(View(w), a, stamp[w])
       IN /\ pending' = [pending EXCEPT ![w] = after \ db]
          /\ firstWriter' = IF after # View(w)
                               /\ firstWriter[a.url] = {}
                            THEN [firstWriter EXCEPT ![a.url] = {w}]
                            ELSE firstWriter
    /\ lock' = {w}
    /\ idx' = [idx EXCEPT ![w] = idx[w] + 1]
    /\ UNCHANGED <<wpc, batch, stamp, db, clock, crawlVars>>

\* Lines 135-137: the INSERT raised "database is locked"; the record is
\* logged and skipped.
InsertLocked(w) ==
    /\ wpc[w] = "insert"
    /\ idx[w] <= Len(batch[w])
    /\ ~CanWrite(w)
    /\ idx' = [idx EXCEPT ![w] = idx[w] + 1]
    /\ UNCHANGED <<wpc, batch, stamp, pending, lock, firstWriter, db, clock,
                   crawlVars>>

\* Line 139: conn.commit().
Commit(w) ==
    /\ wpc[w] = "insert"
    /\ idx[w] > Len(batch[w])
    /\ db' = db \cup pending[w]
    /\ pending' = [pending EXCEPT ![w] = {}]
    /\ lock' = lock \ {w}
    /\ wpc' = [wpc EXCEPT ![w] = "done"]
    /\ UNCHANGED <<batch, idx, stamp, firstWriter, clock, crawlVars>>

NextStore ==
    \/ \E w \in Writers : \E n \in 1..MaxBatch :
           \E arts \in BatchesOfLen(n) : Begin(w, arts)
    \/ \E w \in Writers : Insert(w)
    \/ \E w \in Writers : InsertLocked(w)
    \/ \E w \in Writers : Commit(w)

SpecStore == InitStore /\ [][NextStore]_vars

(***************************************************************************)
(* Properties.                                                             *)
(***************************************************************************)
Last(q) == q[Len(q)]

Outcomes(q) == [i \in 1..Len(q) |-> q[i].outcome]

NumClientErrors(q) ==
    Cardinality({i \in 1..Len(q) : q[i].outcome = "ClientError"})

OnlyClientErrors(q) == \A i \in 1..Len(q) : q[i].outcome = "ClientError"

BatchUrls(arts) == {arts[i].url : i \in 1..Len(arts)}

UniqueUrls == \A u \in Urls(db) : Cardinality(RowsOf(db, u)) = 1

\* C1.  Idempotent storage: in every state the articles table holds at most
\* one row per url, and a save_articles call whose records are all stored
\* already (a second run over pages already captured) adds no row.
IdempotentStorage ==
    /\ []UniqueUrls
    /\ [][(pc = "parsed" /\ BatchUrls(articles) \subseteq Urls(db))
             => db' = db]_vars

\* Witness of C1: in a second run, a non-empty batch was saved and every one
\* of its records was a duplicate.
SecondRunAddsNothing ==
    /\ run = 2
    /\ pc = "throttle"
    /\ articles # <<>>
    /\ saved = Len(articles)
    /\ inserted = 0
    /\ BatchUrls(articles) \subseteq Urls(db)

\* C2 as stated.  Pagination stop on empty page: once parse_articles has
\* returned no record for a page, no later page of the run is requested.
StopsOnEmptyPage ==
    \A p \in emptyPages : \A q \in requested : q <= p

\* C2 as amended.  An empty page stores nothing and does not end the crawl:
\* scrape goes on to the throttle sleep and from there to the next page, up
\* to max_pages.
EmptyPageContinues ==
    [][/\ (pc = "parsed" /\ articles = <<>>)
            => (db' = db /\ pc' = "throttle" /\ page' = page)
       /\ (pc = "throttle" /\ page \in emptyPages /\ page < max_pages)
            => (pc' = "fetch" /\ page' = page + 1 /\ session' = "open")
       /\ (pc = "throttle" /\ page \in emptyPages /\ page = max_pages)
            => pc' = "done"
       /\ (pc = "fetch" => (pc' = "get" /\ requested' = requested \cup {page}))
      ]_vars

\* Witness of C2: a page after an empty page has been requested.
LaterPageAfterEmptyPage ==
    \E p \in emptyPages : p + 1 \in requested

\* C3 as stated.  Stop on fetch failure: once fetch_page has returned the
\* failure value for a page, no later page of the run is requested.
StopsOnFetchFailure ==
    \A p \in failedPages : \A q \in requested : q <= p

\* C3 as amended.  A page whose fetch failed is skipped: nothing is parsed or
\* stored for it, and scrape goes straight on to the next page, ending the
\* crawl only after page max_pages.
FailedPageSkipped ==
    [][(pc = "returned" /\ html = <<>>)
          => /\ db' = db
             /\ articles' = articles
             /\ page < max_pages => (pc' = "fetch" /\ page' = page + 1
                                        /\ session' = "open")
             /\ page = max_pages => pc' = "done"
      ]_vars

\* Witness of C3: a page after a failed page has been requested.
LaterPageAfterFailedPage ==
    \E p \in failedPages : p + 1 \in requested

\* The wait that a 429 response with header h asks for.
AskedWait(h) == IF h = None THEN 0 ELSE IntOf(h)

SleepsRetryAfter ==
    (attempts # <<>> /\ response.status = 429 /\ pc # "raised")
        => Last(attempts).sleep >= AskedWait(response.retry_after)

\* C4 as stated.  Rate-limit honoring: after a 429 fetch_page sleeps at least
\* Retry-After seconds, and a 429 does not use up an attempt: fetch_page
\* gives up retrying only after max_retries network errors.
RateLimitKeepsBudget ==
    /\ SleepsRetryAfter
    /\ (pc = "returned" /\ attempts # <<>>
          /\ Last(attempts).outcome \in {"429", "ClientError"})
        => NumClientErrors(attempts) = max_retries

\* C4 as amended.  After a 429 fetch_page sleeps at least Retry-After seconds
\* before its next attempt, and the 429 uses up one of the max_retries
\* attempts as a network error does: fetch_page gives up once 429 responses
\* and network errors together number max_retries.
RateLimitUsesAttempt ==
    /\ SleepsRetryAfter
    /\ Len(attempts) <= max_retries
    /\ (pc = "get" => Len(attempts) = attempt /\ attempt < max_retries)
    /\ (attempts # <<>> /\ Last(attempts).outcome \in {"429", "ClientError"}
          /\ pc # "raised")
        => IF Len(attempts) < max_retries THEN pc = "get"
           ELSE pc # "get" /\ html = <<>>

\* Witness of C4: a 429 asking for 7 seconds, then two network errors, and
\* fetch_page has returned the failure value.
RateLimitedThenTwoErrors ==
    /\ pc = "returned"
    /\ html = <<>>
    /\ Outcomes(attempts) = <<"429", "ClientError", "ClientError">>
    /\ attempts[1].sleep = 7

\* C5.  Retry bound: after N network errors and then a 200, fetch_page
\* returns the body (N + 1 <= max_retries); after max_retries network errors
\* it returns the failure value; no call sees more than max_retries network
\* errors, and before that many it keeps trying.
RetryBound ==
    /\ NumClientErrors(attempts) <= max_retries
    /\ (attempts # <<>> /\ Last(attempts).outcome = "200"
          /\ OnlyClientErrors(SubSeq(attempts, 1, Len(attempts) - 1)))
        => /\ Len(attempts) <= max_retries
           /\ pc # "get"
           /\ html = response.body
    /\ (OnlyClientErrors(attempts) /\ attempts # <<>>)
        => IF Len(attempts) < max_retries
           THEN pc = "get" /\ attempt = Len(attempts)
           ELSE pc # "get" /\ html = <<>>

\* Witness of C5: two network errors, then a 200 whose body was returned.
TwoErrorsThenSuccess ==
    /\ pc = "returned"
    /\ Outcomes(attempts) = <<"ClientError", "ClientError", "200">>
    /\ html = PageA

\* C6.  Retry-After default: after a 429 whose Retry-After is absent or is
\* not an integer, fetch_page has slept 5 seconds and nothing was raised.
RetryAfterDefault ==
    (attempts # <<>> /\ response.status = 429
        /\ (response.retry_after = None \/ ~IntParses(response.retry_after)))
        => /\ pc # "raised"
           /\ Last(attempts).sleep = DefaultRetryAfter

\* C7.  No update on duplicate: a save_articles call with a record whose url
\* is stored already leaves the stored row as it is (title, date_published,
\* excerpt and scraped_at), and it stays the only row of that url.
NoUpdateOnDuplicate ==
    [][pc = "parsed"
          => \A r \in db : r.url \in BatchUrls(articles)
                => (r \in db' /\ RowsOf(db', r.url) = {r})]_vars

\* Witness of C7: a batch was saved at a later time than a stored row of the
\* same url, with another title.
DuplicateWithNewValues ==
    /\ pc = "throttle"
    /\ \E r \in db : \E i \in 1..Len(articles) :
          /\ articles[i].url = r.url
          /\ articles[i].title # r.title
          /\ articles[i].date_published # r.date_published
          /\ r.scraped_at < clock

\* C8.  Inserted count: the count that save_articles reports for a batch is
\* the number of rows the batch added.
InsertedCountReported == saved = inserted

\* The blocks of a page that have a title and a url.
HasTitle(b) == b.title_elem /\ Strip(b.text) # ""

HasUrl(b) == b.title_elem /\ b.href # None /\ b.href # ""

IsValidBlock(n) == IsArticleBlock(n) /\ HasTitle(n) /\ HasUrl(n)

ValidBlocks(h) == SelectSeq(h, IsValidBlock)

\* C9.  Partial-page resilience: parse_articles returns one record for every
\* block that has a title and a url, in block order, and no other record.
PartialPageResilience ==
    pc = "parsed"
        => /\ Len(articles) = Len(ValidBlocks(html))
           /\ \A i \in 1..Len(articles) :
                 /\ articles[i].title = Strip(ValidBlocks(html)[i].text)
                 /\ articles[i].url = urljoin(base_url, ValidBlocks(html)[i].href)

AllDone == \A w \in Writers : wpc[w] = "done"

\* The first record of a batch with url u.
FirstWith(arts, u) ==
    arts[CHOOSE i \in 1..Len(arts) :
            /\ arts[i].url = u
            /\ \A j \in 1..(i - 1) : arts[j].url # u]

\* C10.  Uniqueness under concurrent insert: when two save_articles calls
\* that both carry a record of the same new url have run concurrently, the
\* table holds exactly one row of that url, and it has the values and the
\* scraped_at of the call whose INSERT came first.
ConcurrentInsertUnique ==
    AllDone =>
        \A u \in (BatchUrls(batch[1]) \cap BatchUrls(batch[2])) \ Urls(SeedRows) :
            /\ Cardinality(RowsOf(db, u)) = 1
            /\ Cardinality(firstWriter[u]) = 1
            /\ \A w \in firstWriter[u] : \A r \in RowsOf(db, u) :
                  /\ r.title = FirstWith(batch[w], u).title
                  /\ r.date_published = FirstWith(batch[w], u).date_published
                  /\ r.excerpt = FirstWith(batch[w], u).excerpt
                  /\ r.scraped_at = stamp[w]

\* Witness of C10: both calls carried records of the same new url with
\* different values; call 1 began first, call 2 began while call 1 was in
\* progress and its INSERT of that url came first; both have finished.
ConcurrentSameUrl ==
    /\ AllDone
    /\ UrlA \in BatchUrls(batch[1]) \cap BatchUrls(batch[2])
    /\ FirstWith(batch[1], UrlA) # FirstWith(batch[2], UrlA)
    /\ stamp[1] < stamp[2]
    /\ firstWriter[UrlA] = {2}
    /\ firstWriter[UrlC] = {1}

Range(q) == {q[i] : i \in 1..Len(q)}

\* C11.  Record validity: every record parse_articles returns, and so every
\* row of the table, has a non-empty title and a non-empty url.
RecordValidity ==
    /\ \A i \in 1..Len(articles) :
          articles[i].title # "" /\ articles[i].url # ""
    /\ \A r \in db : r.title # "" /\ r.url # ""

\* Witness of C11: a page with a block whose title is blank and a block
\* without href was parsed and its records were stored.
InvalidBlocksRejected ==
    /\ pc = "throttle"
    /\ db # {}
    /\ Len(articles) < Len(html)
    /\ \E i \in 1..Len(html) :
          html[i].title_elem /\ Strip(html[i].text) = "" /\ HasUrl(html[i])
    /\ \E i \in 1..Len(html) : HasTitle(html[i]) /\ ~HasUrl(html[i])

\* C12.  Non-retryable status: after a status that is neither 200 nor 429
\* fetch_page has returned the failure value, without a sleep and without
\* another request.
NonRetryableStatus ==
    (attempts # <<>> /\ Last(attempts).outcome = "other")
        => /\ response.status \in OtherStatuses
           /\ pc = "returned"
           /\ html = <<>>
           /\ Last(attempts).sleep = 0
           /\ attempt = Len(attempts) - 1

\* Witness of C12: a network error, then a 500.
ErrorThenServerError ==
    /\ pc = "returned"
    /\ Outcomes(attempts) = <<"ClientError", "other">>
    /\ response.status = 500

\* C13.  Partial progress survives failure: a step in which a page fails (a
\* fetch failure, a storage error or an escaping exception) keeps every
\* stored row as it was, and get_stored_articles still returns it.
PartialProgressSurvives ==
    [][(logged' # "none" \/ pc' = "raised")
          => /\ \A r \in db : r \in db'
             /\ get_stored_articles(db) \subseteq get_stored_articles(db')
      ]_vars

\* Witness of C13: page 1 was stored, and saving page 2 met a database error.
DatabaseErrorAfterStoredPage ==
    /\ pc = "throttle"
    /\ page = 2
    /\ stored = <<1, 2>>
    /\ logged = "database"
    /\ Cardinality(get_stored_articles(db)) = 2

\* C14.  Throttling between requests: the first request of every page after
\* the first is preceded by the inter-page sleep.
ThrottledBetweenPages == (pc = "fetch" /\ page > 1) => throttled

\* C15.  A 200 response always leads to parsing: after a 200 the body is
\* handed to parse_articles, whatever the body.
Ok200LeadsToParsing ==
    [][(pc = "returned" /\ response.status = 200) => pc' = "parsed"]_vars

\* C16.  Optional fields never cause a skip: every block with a title and a
\* url has its record, with an empty date_published or excerpt where the
\* block has none.
OptionalFieldsNeverSkip ==
    pc = "parsed"
        => \A i \in 1..Len(html) : IsValidBlock(html[i])
              => \E j \in 1..Len(articles) :
                    /\ articles[j].title = Strip(html[i].text)
                    /\ articles[j].url = urljoin(base_url, html[i].href)
                    /\ (html[i].time \in {None, NoDatetime}
                          => articles[j].date_published = "")
                    /\ (html[i].excerpt = None => articles[j].excerpt = "")

\* C17.  Exponential backoff: the network error that ends attempt a (counted
\* from 0) is followed by a sleep of 2^a seconds, and by none after the last
\* attempt.
ExponentialBackoff ==
    \A i \in 1..Len(attempts) : attempts[i].outcome = "ClientError"
        => attempts[i].sleep = IF i < max_retries THEN 2 ^ (i - 1) ELSE 0

\* Witness of C17: three network errors, with sleeps of 1 and 2 seconds and
\* none after the third.
ThreeErrorsBackoff ==
    /\ pc = "returned"
    /\ Outcomes(attempts) = <<"ClientError", "ClientError", "ClientError">>
    /\ attempts[1].sleep = 1
    /\ attempts[2].sleep = 2
    /\ attempts[3].sleep = 0

\* Requests of the current fetch_page call.
CallRequests == Len(attempts) + (IF pc = "get" THEN 1 ELSE 0)

\* C18.  Bounded fetching and termination: a fetch_page call makes at most
\* max_retries requests, 429 responses included; a scrape(max_pages) run
\* makes at most max_retries * max_pages requests, and it ends.
BoundedFetching ==
    /\ [](CallRequests <= max_retries)
    /\ [](nrequests <= max_retries * max_pages)
    /\ (pc = "fetch") ~> (pc \in {"done", "raised"})

\* Witness of C18: a run over two pages has ended after six requests.
SixRequestsThenDone ==
    /\ pc = "done"
    /\ max_pages = 2
    /\ nrequests = 6

\* C19.  Sequential page order: when a page is being fetched every earlier
\* page has been skipped, found empty or stored; no records wait to be stored
\* while a page is fetched; pages are stored in increasing order.
SequentialPageOrder ==
    /\ \A q \in requested :
          /\ q <= page
          /\ q < page => q \in failedPages \cup emptyPages \cup Range(stored)
    /\ (pc \in {"fetch", "get", "returned"} /\ page \notin failedPages)
          => page \notin emptyPages \cup Range(stored)
    /\ pc \in {"get", "returned"} => articles = <<>>
    /\ \A i \in 1..Len(stored) : \A j \in 1..Len(stored) :
          i < j => stored[i] < stored[j]

\* Witness of C19: page 2 is requested after page 1 was stored.
SecondPageAfterStore ==
    /\ pc = "get"
    /\ page = 2
    /\ stored = <<1>>
    /\ db # {}

\* C20.  Session release: the session is open while scrape runs and closed
\* once scrape has ended, normally or by an exception.
SessionReleased ==
    /\ pc \in {"done", "raised"} => session = "closed"
    /\ pc \in {"fetch", "get", "returned", "parsed", "throttle"}
          => session = "open"

\* Witness of C20: an exception has left scrape and the session is closed.
ClosedAfterException ==
    /\ pc = "raised"
    /\ session = "closed"
    /\ page = 2

=============================================================================
